---- MODULE Spec2Model ----
(***************************************************************************)
(* Model of darksidelemm/did-i-see-a-sonde:                                *)
(*   utils.py   position_info, getDensity, seaLevelDescentRate,           *)
(*              load_summary_file, log_files_to_kml                       *)
(*   step2.py   the visibility filter loop                                *)
(*   step4.py   the KML export                                            *)
(*                                                                         *)
(* Python floats are modelled in fixed point.  Angles that the code holds  *)
(* in radians are held in ticks of 1/AngleRes degree (so pi = 180 *       *)
(* AngleRes ticks), sines and cosines are scaled by TrigScale, degrees    *)
(* returned to the caller are in millidegrees, lengths are whole metres.  *)
(* The one place where the finite mantissa of a float decides the result  *)
(* (bearing + 2*pi) rounds to Prec significant bits.                      *)
(***************************************************************************)
EXTENDS Integers, Sequences, FiniteSets, TLC

VARIABLES
    \* step2.py __main__
    cfg,          \* [min_el, window]: args.min_el, args.window
    files,        \* the summary files load_summary_file has been called on
    fileIdx,      \* number of files of _file_list taken by the for loop
    data,         \* _data of the file being iterated (a sequence) or None
    entryIdx,     \* number of entries of _data already processed
    serials,      \* the dict serials: serial -> entry
    pc,           \* "loop", "entries", "write", "done", "crashed"
    output,       \* lines written to args.output
    \* utils.getDensity / seaLevelDescentRate called on one input
    altitude, descent_rate, atmos,
    \* utils.position_info called on one input
    listener, balloon, posInfo,
    \* utils.log_files_to_kml
    kmlFiles, kmlIdx, kmlDoc, kmlPc, kmlWritten,
    \* utils.read_json_file called on one file
    jsonFile, flightData

filterVars == <<cfg, files, fileIdx, data, entryIdx, serials, pc, output>>
atmosVars  == <<altitude, descent_rate, atmos>>
geoVars    == <<listener, balloon, posInfo>>
kmlVars    == <<kmlFiles, kmlIdx, kmlDoc, kmlPc, kmlWritten>>
readVars   == <<jsonFile, flightData>>
vars       == <<filterVars, atmosVars, geoVars, kmlVars, readVars>>

None == "None"

Abs(x) == IF x < 0 THEN -x ELSE x
Sign(x) == IF x < 0 THEN -1 ELSE IF x > 0 THEN 1 ELSE 0
Max(a, b) == IF a >= b THEN a ELSE b

-----------------------------------------------------------------------------
(* Fixed-point arithmetic standing for the float operations of utils.py.   *)

AngleRes  == 2^6        \* angle ticks per degree
TrigScale == 2^12       \* sin/cos are integers in -TrigScale..TrigScale
DegScale  == 10^3       \* returned degrees are millidegrees
LimbBase  == 10^4       \* base of the long integers used for squares of metres

\* width of the mantissa of the model's floats (53 in the code's doubles)
Prec == 10

Pi     == 180 * AngleRes
TwoPi  == 2 * Pi
PiHalf == 90 * AngleRes

\* a * b / c for a, b >= 0, c > 0, rounded down, for products beyond 2^31
MulDiv(a, b, c) == (a \div c) * b + ((a % c) * b) \div c

\* Number of bits of n > 0
RECURSIVE BitLen(_)
BitLen(n) == IF n = 0 THEN 0 ELSE 1 + BitLen(n \div 2)

\* A real x rounded to the nearest float of Prec significant bits, ties to even
Fl(x) ==
    LET m   == Abs(x)
        e   == BitLen(m) - Prec
        ulp == IF e > 0 THEN 2^e ELSE 1
        q   == m \div ulp
        r   == m % ulp
        up  == (2 * r > ulp) \/ (2 * r = ulp /\ q % 2 = 1)
    IN  Sign(x) * ulp * (IF up THEN q + 1 ELSE q)

\* float addition
FloatAdd(a, b) == Fl(a + b)

\* math.sqrt on a non-negative integer, rounded down
RECURSIVE SqrtIter(_, _, _)
SqrtIter(n, lo, hi) ==
    IF lo >= hi THEN lo
    ELSE LET mid == (lo + hi + 1) \div 2
         IN  IF mid * mid <= n THEN SqrtIter(n, mid, hi) ELSE SqrtIter(n, lo, mid - 1)
Sqrt(n) == SqrtIter(n, 0, 46340)

\* math.radians: degrees to angle ticks
Radians(d) == d * AngleRes

\* math.degrees: angle ticks to millidegrees
Degrees(x) == Sign(x) * ((Abs(x) * DegScale) \div AngleRes)

\* the angle x (ticks) in radians scaled by TrigScale
RadFix(x) == (x * (TrigScale \div AngleRes) * 355) \div (113 * 180)

\* Taylor series of sin about 0 for 0 <= x <= PiHalf ticks
RECURSIVE SinSeries(_, _, _, _)
SinSeries(xr, term, k, acc) ==
    IF term = 0 \/ k > 15 THEN acc
    ELSE LET next == ((((term * xr) \div TrigScale) * xr) \div TrigScale) \div (k * (k + 1))
         IN  SinSeries(xr, next, k + 2,
                       IF (k \div 2) % 2 = 1 THEN acc - next ELSE acc + next)
SinQ(x) ==
    IF x = PiHalf THEN TrigScale
    ELSE LET xr == RadFix(x)
             s  == SinSeries(xr, xr, 2, xr)
         IN  IF s > TrigScale THEN TrigScale ELSE s

\* math.sin, math.cos on any angle in ticks
Sin(x) ==
    LET m == Abs(x) % TwoPi
        h == IF m >= Pi THEN m - Pi ELSE m
        q == IF h > PiHalf THEN Pi - h ELSE h
        s == IF m >= Pi THEN -SinQ(q) ELSE SinQ(q)
    IN  IF x < 0 THEN -s ELSE s
Cos(x) == Sin(Abs(x) + PiHalf)

\* the angle a in 0..PiHalf with tan(a) nearest below y/x, for x, y > 0
RECURSIVE AtanIter(_, _, _, _)
AtanIter(y, x, lo, hi) ==
    IF lo >= hi THEN lo
    ELSE LET mid == (lo + hi + 1) \div 2
         IN  IF Sin(mid) * x <= Cos(mid) * y
             THEN AtanIter(y, x, mid, hi) ELSE AtanIter(y, x, lo, mid - 1)

\* both arguments halved until the products of AtanIter fit
RECURSIVE Shrink(_)
Shrink(p) == IF Max(p[1], p[2]) < 2^18 THEN p ELSE Shrink(<<p[1] \div 2, p[2] \div 2>>)

\* math.atan2(y, x) in ticks, in -Pi..Pi.  atan2(0, x) is 0 for x >= 0 and
\* pi for x < 0; a non-zero y never gives 0: the result keeps the sign of y
\* however small it is.
Atan2(y, x) ==
    IF y = 0 THEN (IF x >= 0 THEN 0 ELSE Pi)
    ELSE IF x = 0 THEN Sign(y) * PiHalf
    ELSE LET p  == Shrink(<<Abs(y), Abs(x)>>)
             a0 == IF p[2] = 0 THEN PiHalf
                   ELSE IF p[1] = 0 THEN 0
                   ELSE AtanIter(p[1], p[2], 0, PiHalf)
         IN  IF x > 0 THEN Sign(y) * Max(a0, 1) ELSE Sign(y) * (Pi - a0)

-----------------------------------------------------------------------------
(* Long integers: the squares of radius + alt (about 4 * 10^13) are exact   *)
(* in a double and beyond a 32-bit integer.  A long integer is a sequence  *)
(* of five limbs in base LimbBase, least significant first.                *)

BigNorm(c) ==
    LET v1 == c[1]
        v2 == c[2] + (v1 \div LimbBase)
        v3 == c[3] + (v2 \div LimbBase)
        v4 == c[4] + (v3 \div LimbBase)
        v5 == c[5] + (v4 \div LimbBase)
    IN  <<v1 % LimbBase, v2 % LimbBase, v3 % LimbBase, v4 % LimbBase, v5>>

\* a * b for 0 <= a, b < LimbBase^2
BigMul(a, b) ==
    LET a0 == a % LimbBase
        a1 == a \div LimbBase
        b0 == b % LimbBase
        b1 == b \div LimbBase
    IN  BigNorm(<<a0 * b0, a0 * b1 + a1 * b0, a1 * b1, 0, 0>>)

BigAdd(X, Y) == BigNorm([i \in 1..5 |-> X[i] + Y[i]])
\* X - Y for X >= Y
BigSub(X, Y) == BigNorm([i \in 1..5 |-> X[i] - Y[i]])
\* X * c for 0 <= c <= TrigScale
BigMulSmall(X, c) == BigNorm([i \in 1..5 |-> X[i] * c])
\* X / d rounded down, for 0 < d < 2 * 10^5
BigDivSmall(X, d) ==
    LET r5 == X[5] % d
        n4 == r5 * LimbBase + X[4]
        n3 == (n4 % d) * LimbBase + X[3]
        n2 == (n3 % d) * LimbBase + X[2]
        n1 == (n2 % d) * LimbBase + X[1]
    IN  <<n1 \div d, n2 \div d, n3 \div d, n4 \div d, X[5] \div d>>

RECURSIVE BigLeqFrom(_, _, _)
BigLeqFrom(X, Y, i) ==
    IF i = 0 THEN TRUE
    ELSE IF X[i] # Y[i] THEN X[i] < Y[i]
    ELSE BigLeqFrom(X, Y, i - 1)
BigLeq(X, Y) == BigLeqFrom(X, Y, 5)

\* the value of a long integer below 2^31
BigToInt(X) == X[1] + LimbBase * X[2] + LimbBase * LimbBase * X[3]

\* math.sqrt of a long integer, rounded down
RECURSIVE BigSqrtIter(_, _, _)
BigSqrtIter(X, lo, hi) ==
    IF lo >= hi THEN lo
    ELSE LET mid == (lo + hi + 1) \div 2
         IN  IF BigLeq(BigMul(mid, mid), X)
             THEN BigSqrtIter(X, mid, hi) ELSE BigSqrtIter(X, lo, mid - 1)
BigSqrt(X) == BigSqrtIter(X, 0, 2^25)

\* the product of two sin/cos values, and of a sin/cos value and a length
TrigMul(a, b) == Sign(a) * Sign(b) * ((Abs(a) * Abs(b)) \div TrigScale)
LenMul(c, t)  == Sign(c) * MulDiv(t, Abs(c), TrigScale)

-----------------------------------------------------------------------------
(* utils.position_info                                                     *)

radius == 6364963

\* sa, sb of listener and balloon latitudes and d_lon (all in ticks)
Sa(lat1, lat2, d_lon) == TrigMul(Cos(lat2), Sin(d_lon))
Sb(lat1, lat2, d_lon) ==
    TrigMul(Cos(lat1), Sin(lat2)) - TrigMul(TrigMul(Sin(lat1), Cos(lat2)), Cos(d_lon))

AngleAtCentre(lat1, lat2, d_lon) ==
    LET sa == Sa(lat1, lat2, d_lon)
        sb == Sb(lat1, lat2, d_lon)
        aa == Sqrt(sa * sa + sb * sb)
        ab == TrigMul(Sin(lat1), Sin(lat2))
              + TrigMul(TrigMul(Cos(lat1), Cos(lat2)), Cos(d_lon))
    IN  Atan2(aa, ab)

\* great_circle_distance = angle_at_centre * radius, the angle being in radians
GreatCircleDistance(angle_at_centre) ==
    BigToInt(BigDivSmall(BigDivSmall(BigMul(radius, angle_at_centre * 355),
                                     113 * 180), AngleRes))

\* (mutant) the elevation taken from |ea|: a target below reads as above
Elevation_abs(angle_at_centre, ta, tb) ==
    LET ea == LenMul(Cos(angle_at_centre), tb) - ta
        eb == LenMul(Sin(angle_at_centre), tb)
    IN  Atan2(Abs(ea), eb)

\* elevation = atan2(ea, eb)
Elevation(angle_at_centre, ta, tb) ==
    LET ea == LenMul(Cos(angle_at_centre), tb) - ta
        eb == LenMul(Sin(angle_at_centre), tb)
    IN  Atan2(ea, eb)

\* distance = sqrt(ta**2 + tb**2 - 2*tb*ta*cos(angle_at_centre))
StraightDistance(angle_at_centre, ta, tb) ==
    LET c     == Cos(angle_at_centre)
        cross == BigDivSmall(BigMulSmall(BigMul(2 * tb, ta), Abs(c)), TrigScale)
        sq    == BigAdd(BigMul(ta, ta), BigMul(tb, tb))
    IN  BigSqrt(IF c >= 0 THEN BigSub(sq, cross) ELSE BigAdd(sq, cross))

\* "Give a bearing in range 0 <= b < 2pi": if bearing < 0: bearing += 2 * pi
NormalizeBearing(bearing) ==
    IF bearing < 0 THEN FloatAdd(bearing, TwoPi) ELSE bearing

\* position_info(listener, balloon), both <<lat, lon, alt>> in degrees and metres
position_info(lsn, bal) ==
    LET lat1  == Radians(lsn[1])
        lon1  == Radians(lsn[2])
        lat2  == Radians(bal[1])
        lon2  == Radians(bal[2])
        d_lon == lon2 - lon1
        angle_at_centre == AngleAtCentre(lat1, lat2, d_lon)
        ta    == radius + lsn[3]
        tb    == radius + bal[3]
        elev  == Elevation(angle_at_centre, ta, tb)
        bearing == NormalizeBearing(Atan2(Sa(lat1, lat2, d_lon), Sb(lat1, lat2, d_lon)))
    IN  [ angle_at_centre       |-> Degrees(angle_at_centre),
          bearing               |-> Degrees(bearing),
          bearing_radians       |-> bearing,
          great_circle_distance |-> GreatCircleDistance(angle_at_centre),
          straight_distance     |-> StraightDistance(angle_at_centre, ta, tb),
          elevation             |-> Degrees(elev),
          elevation_radians     |-> elev ]

-----------------------------------------------------------------------------
(* utils.getDensity, utils.seaLevelDescentRate                             *)
(* Altitudes are whole metres, temperatures centikelvin, pressure ratios   *)
(* and densities are scaled by RelScale, exp/log values by ExpScale.       *)

RelScale == 10^9
ExpScale == 2^14
IndexError == "IndexError"

\* the lookup tables (Python indexes them from 0: table[i] is Table[i + 1])
altitudes    == <<0, 11000, 20000, 32000, 47000, 51000, 71000, 84852>>
pressureRels == <<1000000000, 223361105, 54032950, 8566678, 1094560, 660635, 39047, 3685>>
temperatures == <<28815, 21665, 21665, 22865, 27065, 27065, 21465, 18695>>
\* tempGrads in tenths of K/km
tempGrads    == <<-65, 0, 10, 28, 0, -28, -20, 0>>
densitySL     == 1225      \* thousandths of kg/m3
temperatureSL == 28815
\* gMR = gravity * airMolWeight / RGas = 34.163..., in thousandths
gMR == 34163

\* (mutant) the scan with >= in place of >
RECURSIVE ScanRegion_geq(_, _)
ScanRegion_geq(alt, i) ==
    IF i + 1 >= Len(altitudes) THEN [raised |-> IndexError]
    ELSE IF alt >= altitudes[i + 2] THEN ScanRegion_geq(alt, i + 1)
    ELSE [raised |-> None, i |-> i]

\* while altitude > altitudes[i + 1]: i = i + 1
\* altitudes[i + 1] raises IndexError once i + 1 reaches len(altitudes)
RECURSIVE ScanRegion(_, _)
ScanRegion(alt, i) ==
    IF i + 1 >= Len(altitudes) THEN [raised |-> IndexError]
    ELSE IF alt > altitudes[i + 2] THEN ScanRegion(alt, i + 1)
    ELSE [raised |-> None, i |-> i]

\* "Pick a region to work in"
PickRegion(alt) == IF alt > 0 THEN ScanRegion(alt, 0) ELSE [raised |-> None, i |-> 0]

\* e^x for x >= 0, both scaled by ExpScale
RECURSIVE ExpSeries(_, _, _, _)
ExpSeries(x, term, k, acc) ==
    IF term = 0 \/ k > 30 THEN acc
    ELSE LET next == MulDiv(term, x, ExpScale) \div k
         IN  ExpSeries(x, next, k + 1, acc + next)
\* math.exp
Exp(x) ==
    IF x >= 0 THEN ExpSeries(x, ExpScale, 1, ExpScale)
    ELSE (ExpScale * ExpScale) \div ExpSeries(-x, ExpScale, 1, ExpScale)

\* ln(r) = 2 * atanh((r - 1) / (r + 1)), both scaled by ExpScale
RECURSIVE AtanhSeries(_, _, _, _)
AtanhSeries(z2, term, k, acc) ==
    IF term = 0 \/ k > 31 THEN acc
    ELSE LET next == (term * z2) \div ExpScale
         IN  AtanhSeries(z2, next, k + 2, acc + next \div k)
Ln(r) ==
    LET z  == (Abs(r - ExpScale) * ExpScale) \div (r + ExpScale)
        z2 == (z * z) \div ExpScale
        l  == 2 * AtanhSeries(z2, z, 3, z)
    IN  IF r < ExpScale THEN -l ELSE l

\* math.pow(b, e): b scaled by ExpScale, e in thousandths
Pow(b, e) ==
    LET l == Ln(b)
    IN  Exp(Sign(l) * Sign(e) * ((Abs(l) * Abs(e)) \div 1000))

\* "Lookup based on region" to the end of getDensity, for region i
DensityInRegion(alt, i) ==
    LET baseTemp        == temperatures[i + 1]
        tempGrad        == tempGrads[i + 1]
        pressureRelBase == pressureRels[i + 1]
        deltaAltitude   == alt - altitudes[i + 1]
        dT              == tempGrad * deltaAltitude
        temperature     == baseTemp + Sign(dT) * (Abs(dT) \div 100)
        factor ==
            IF tempGrad = 0
            THEN Exp(-Sign(deltaAltitude)
                     * ((((gMR * Abs(deltaAltitude)) \div baseTemp) * ExpScale) \div 10000))
            ELSE Pow((baseTemp * ExpScale) \div temperature,
                     Sign(tempGrad) * ((gMR * 10) \div Abs(tempGrad)))
        pressureRel == MulDiv(pressureRelBase, factor, ExpScale)
    IN  MulDiv(MulDiv(pressureRel, densitySL, 1000), temperatureSL, temperature)

\* getDensity(altitude): the density, or the exception it raises
getDensity(alt) ==
    LET region == PickRegion(alt)
    IN  IF region.raised # None THEN region
        ELSE [raised |-> None, i |-> region.i, density |-> DensityInRegion(alt, region.i)]

\* (mutant) descent_rate * math.sqrt(rho / 1.225): the rate keeps its sign
seaLevelDescentRate_signed(rate, alt) ==
    LET rho == getDensity(alt)
    IN  IF rho.raised # None THEN [raised |-> rho.raised]
        ELSE [raised |-> None,
              value  |-> Sign(rate)
                         * (BigSqrt(BigMul(rho.density \div densitySL, rate * rate)) \div 1000)]

\* seaLevelDescentRate(descent_rate, altitude):
\*   math.sqrt((rho / 1.225) * math.pow(descent_rate, 2))
\* rates are in cm/s; rho / 1.225 is scaled by 10^6
seaLevelDescentRate(rate, alt) ==
    LET rho == getDensity(alt)
    IN  IF rho.raised # None THEN [raised |-> rho.raised]
        ELSE [raised |-> None,
              value  |-> BigSqrt(BigMul(rho.density \div densitySL, rate * rate)) \div 1000]

-----------------------------------------------------------------------------
(* The values the variables of a program keep while another one runs.      *)

FilterIdle ==
    /\ cfg = None /\ files = <<>> /\ fileIdx = 0 /\ data = <<>> /\ entryIdx = 0
    /\ serials = <<>> /\ pc = "idle" /\ output = None
AtmosIdle == altitude = 0 /\ descent_rate = 0 /\ atmos = [op |-> None]
GeoIdle   == listener = <<0, 0, 0>> /\ balloon = <<0, 0, 0>> /\ posInfo = [op |-> None]
KmlIdle   ==
    /\ kmlFiles = <<>> /\ kmlIdx = 0 /\ kmlDoc = <<>> /\ kmlPc = "idle"
    /\ kmlWritten = None
ReadIdle  == jsonFile = None /\ flightData = [op |-> None]

-----------------------------------------------------------------------------
(* getDensity and seaLevelDescentRate applied to one input.                *)

\* the metres next to every band base, below the table and above it
Altitudes ==
    UNION {{altitudes[k] - 1, altitudes[k], altitudes[k] + 1} : k \in 1..Len(altitudes)}
    \cup {-100, 5000, 60000, 100000}
\* descent rates in cm/s
Rates == {-1234, -500, -1, 0, 1, 500, 1234}

InitDensity ==
    /\ altitude \in Altitudes
    /\ descent_rate \in Rates
    /\ atmos = [op |-> None]
    /\ FilterIdle /\ GeoIdle /\ KmlIdle /\ ReadIdle

CallGetDensity ==
    /\ atmos.op = None
    /\ atmos' = [op |-> "getDensity", result |-> getDensity(altitude)]
    /\ UNCHANGED <<altitude, descent_rate, filterVars, geoVars, kmlVars, readVars>>

CallSeaLevelDescentRate ==
    /\ atmos.op = None
    /\ atmos' = [op |-> "seaLevelDescentRate",
                 result |-> seaLevelDescentRate(descent_rate, altitude)]
    /\ UNCHANGED <<altitude, descent_rate, filterVars, geoVars, kmlVars, readVars>>

NextDensity == CallGetDensity \/ CallSeaLevelDescentRate
SpecDensity == InitDensity /\ [][NextDensity]_vars

-----------------------------------------------------------------------------
(* position_info applied to one pair of positions.                         *)

Lats == {-35, 0, 37, 89}
Lons == {-89, -1, 0, 138}
Alts == {0, 161, 1000}
Positions == {<<la, lo, al>> : la \in Lats, lo \in Lons, al \in Alts}

InitGeo ==
    /\ listener \in Positions
    /\ balloon \in Positions
    /\ posInfo = [op |-> None]
    /\ FilterIdle /\ AtmosIdle /\ KmlIdle /\ ReadIdle

CallPositionInfo ==
    /\ posInfo.op = None
    /\ posInfo' = [op |-> "position_info", result |-> position_info(listener, balloon)]
    /\ UNCHANGED <<listener, balloon, filterVars, atmosVars, kmlVars, readVars>>

NextGeo == CallPositionInfo
SpecGeo == InitGeo /\ [][NextGeo]_vars

-----------------------------------------------------------------------------
(* step2.py: the visibility filter over the summary files.                 *)

MaxFiles == 2     \* number of files glob may return

\* args.lat, args.lon, args.alt (whole degrees and metres)
observer == <<37, -89, 161>>
\* args.datetime, "2024-04-08T19:00:15Z", as <<day, hour, minute, second>>
observer_datetime == <<8, 19, 0, 15>>

\* dateutil parse(...) of a datetime, and (a - b).total_seconds()
Parse(dt) == ((dt[1] * 24 + dt[2]) * 60 + dt[3]) * 60 + dt[4]
TotalSeconds(a, b) == a - b

\* args.min_el (millidegrees) and args.window (seconds)
Configs == { [min_el |-> 0,     window |-> 86400],
             [min_el |-> -5000, window |-> 3600 * 4] }

\* Entries of a summary file.  keys is the set of keys the JSON object has;
\* the value of a key it lacks is never read.
AllKeys == {"lat", "lon", "alt", "datetime", "serial"}
Entry(ser, pos, dt) ==
    [keys |-> AllKeys, serial |-> ser, lat |-> pos[1], lon |-> pos[2], alt |-> pos[3],
     datetime |-> dt]
Without(e, k) == [e EXCEPT !.keys = @ \ k]

Overhead == <<37, -89, 1000>>    \* straight above the observer
Level    == <<37, -89, 161>>     \* at the observer: elevation exactly 0
Far      == <<38, -88, 161>>     \* some 140 km away, just below the horizon

EntryA == Entry("S1", Overhead, <<8, 19, 0, 15>>)   \* at the observer's time
EntryB == Entry("S1", Level,    <<8, 15, 0, 16>>)   \* 14399 s before
EntryC == Entry("S2", Overhead, <<8, 23, 0, 15>>)   \* exactly 14400 s after
EntryD == Entry("S2", Far,      <<8, 19, 0, 15>>)
Entries == {EntryA, EntryB, EntryC, EntryD}

\* entries that lack a field
Malformed ==
    { Without(EntryA, {"lat", "lon", "alt"}),
      Without(EntryA, {"datetime"}),
      Without(EntryB, {"datetime"}),
      Without(EntryA, {"serial"}) }

\* What a summary file can hold: text that is no JSON, a JSON list of
\* another length than 3, the three entries of one flight, three entries of
\* two flights, three entries one of which lacks a field.
SummaryFiles ==
    { [json |-> FALSE, value |-> <<>>],
      [json |-> TRUE,  value |-> <<>>],
      [json |-> TRUE,  value |-> <<EntryA, EntryB, EntryC, EntryD>>] }
    \cup { [json |-> TRUE, value |-> <<x, y, z>>] :
               x \in {EntryA, EntryB}, y \in {EntryA, EntryB}, z \in {EntryA, EntryB} }
    \cup { [json |-> TRUE, value |-> <<x, y, z>>] :
               x \in {EntryC, EntryD}, y \in {EntryC, EntryD}, z \in {EntryC, EntryD} }
    \cup { [json |-> TRUE, value |-> <<EntryA, EntryC, EntryB>>],
           [json |-> TRUE, value |-> <<EntryD, EntryB, EntryD>>] }
    \cup { [json |-> TRUE, value |-> <<EntryA, m, EntryC>>] : m \in Malformed }

\* utils.load_summary_file: None, or the data of the file
load_summary_file(f) ==
    IF ~f.json THEN [none |-> TRUE, data |-> <<>>]            \* except: return None
    ELSE IF Len(f.value) # 3 THEN [none |-> TRUE, data |-> <<>>]
    ELSE [none |-> FALSE, data |-> f.value]

\* position_info(observer, _sonde_pos) for the positions the entries have
SondePositions == {Overhead, Level, Far}
PosInfo == [p \in SondePositions |-> position_info(observer, p)]

\* (mutant) the elevation threshold taken inclusively
PassesElevation_geq(elevation, min_el) == elevation >= min_el
\* if _pos_info['elevation'] > args.min_el
PassesElevation(elevation, min_el) == elevation > min_el
\* (mutant) the time window taken inclusively
PassesWindow_leq(time_diff, window) == time_diff <= window
\* if _time_diff < args.window
PassesWindow(time_diff, window) == time_diff < window

\* The dict serials, as the sequence of its <<key, value>> items in
\* insertion order.
EmptyDict == <<>>
DictKeys(d) == {d[i][1] : i \in 1..Len(d)}
DictKeyList(d) == [i \in 1..Len(d) |-> d[i][1]]
DictGet(d, k) == d[CHOOSE i \in 1..Len(d) : d[i][1] = k][2]
\* (mutant) a key already present keeps its first value
DictSet_keepFirst(d, k, v) ==
    IF k \in DictKeys(d) THEN d ELSE Append(d, <<k, v>>)
\* serials[k] = v
DictSet(d, k, v) ==
    IF k \in DictKeys(d)
    THEN [i \in 1..Len(d) |-> IF d[i][1] = k THEN <<k, v>> ELSE d[i]]
    ELSE Append(d, <<k, v>>)

Init ==
    /\ cfg \in Configs
    /\ files = <<>>
    /\ fileIdx = 0
    /\ data = <<>>
    /\ entryIdx = 0
    /\ serials = EmptyDict
    /\ pc = "loop"
    /\ output = None
    /\ AtmosIdle /\ GeoIdle /\ KmlIdle /\ ReadIdle

\* for _file in _file_list: _data = load_summary_file(_file); if _data:
LoadFile ==
    /\ pc = "loop"
    /\ fileIdx < MaxFiles
    /\ \E f \in SummaryFiles :
        LET loaded == load_summary_file(f)
        IN  /\ files' = Append(files, f)
            /\ fileIdx' = fileIdx + 1
            /\ entryIdx' = 0
            /\ IF ~loaded.none /\ Len(loaded.data) > 0
               THEN data' = loaded.data /\ pc' = "entries"
               ELSE data' = <<>> /\ pc' = "loop"
    /\ UNCHANGED <<cfg, serials, output, atmosVars, geoVars, kmlVars, readVars>>

\* the body of `for _entry in _data` (step2.py lines 57-66) on the next entry
ProcessEntry ==
    /\ pc = "entries"
    /\ LET _entry == data[entryIdx + 1]
           has(k) == k \in _entry.keys
           next   == /\ entryIdx' = entryIdx + 1
                     /\ pc' = IF entryIdx + 1 = Len(data) THEN "loop" ELSE "entries"
           raise  == /\ entryIdx' = entryIdx
                     /\ pc' = "crashed"
       IN  IF ~(has("lat") /\ has("lon") /\ has("alt"))
           THEN raise /\ UNCHANGED serials                          \* KeyError
           ELSE LET _pos_info == PosInfo[<<_entry.lat, _entry.lon, _entry.alt>>]
                IN  IF PassesElevation(_pos_info.elevation, cfg.min_el)
                    THEN IF ~has("datetime")
                         THEN raise /\ UNCHANGED serials             \* KeyError
                         ELSE LET _pos_time  == Parse(_entry.datetime)
                                  _time_diff == Abs(TotalSeconds(Parse(observer_datetime),
                                                                 _pos_time))
                              IN  IF PassesWindow(_time_diff, cfg.window)
                                  THEN IF ~has("serial")
                                       THEN raise /\ UNCHANGED serials   \* KeyError
                                       ELSE /\ serials' = DictSet(serials, _entry.serial, _entry)
                                            /\ next
                                  ELSE next /\ UNCHANGED serials
                    ELSE next /\ UNCHANGED serials
    /\ UNCHANGED <<cfg, files, fileIdx, data, output, atmosVars, geoVars, kmlVars, readVars>>

\* after the loop: write one line per key of serials to args.output
WriteSerialList ==
    /\ pc = "loop"
    /\ output' = DictKeyList(serials)
    /\ pc' = "done"
    /\ UNCHANGED <<cfg, files, fileIdx, data, entryIdx, serials, atmosVars, geoVars, kmlVars, readVars>>

Next == LoadFile \/ ProcessEntry \/ WriteSerialList
Spec == Init /\ [][Next]_vars

-----------------------------------------------------------------------------
(* utils.read_json_file, _log_file_to_kml_folder, log_files_to_kml         *)
(* (called by step4.py on the files of the telemetry folder).              *)

MaxKmlFiles == 3    \* length of file_list

\* A datetime string is the sequence of its characters (digits here);
\* list.sort() orders strings lexicographically.
RECURSIVE StrLess(_, _)
StrLess(a, b) ==
    IF Len(b) = 0 THEN FALSE
    ELSE IF Len(a) = 0 THEN TRUE
    ELSE IF a[1] # b[1] THEN a[1] < b[1]
    ELSE StrLess(Tail(a), Tail(b))

\* list(keys) left in descending order (mutant)
RECURSIVE Sorted_desc(_)
Sorted_desc(S) ==
    IF S = {} THEN <<>>
    ELSE LET greatest == CHOOSE x \in S : \A y \in S \ {x} : StrLess(y, x)
         IN  <<greatest>> \o Sorted_desc(S \ {greatest})

\* list(keys) followed by .sort()
RECURSIVE Sorted(_)
Sorted(S) ==
    IF S = {} THEN <<>>
    ELSE LET least == CHOOSE x \in S : \A y \in S \ {x} : StrLess(x, y)
         IN  <<least>> \o Sorted(S \ {least})

\* Telemetry entries of an exported file.  keys: the keys the JSON object
\* has; text: the keys whose JSON value is a string rather than a number.
Telem(dt, ser, pos) ==
    [keys |-> AllKeys, text |-> {"datetime", "serial"}, datetime |-> dt, serial |-> ser,
     lat |-> pos[1], lon |-> pos[2], alt |-> pos[3]]

TelemK1  == Telem(<<1, 0>>, "S1", <<37, -89, 1000>>)
TelemK2  == Telem(<<1, 1>>, "S1", <<37, -88, 5000>>)
TelemK3  == Telem(<<2>>,    "S2", <<38, -88, 161>>)
TelemK1b == Telem(<<1, 0>>, "S3", <<38, -89, 900>>)    \* the datetime of TelemK1 again

\* What an exported file can be: unreadable, no JSON, or a JSON list.
KmlFileSet ==
    { [readable |-> FALSE, json |-> FALSE, value |-> <<>>],
      [readable |-> TRUE,  json |-> FALSE, value |-> <<>>],
      [readable |-> TRUE,  json |-> TRUE,  value |-> <<>>],
      [readable |-> TRUE,  json |-> TRUE,  value |-> <<TelemK1>>],
      [readable |-> TRUE,  json |-> TRUE,  value |-> <<TelemK3, TelemK2, TelemK1>>],
      [readable |-> TRUE,  json |-> TRUE,  value |-> <<TelemK1, TelemK2, TelemK1b>>],
      [readable |-> TRUE,  json |-> TRUE,  value |-> <<TelemK2, Without(TelemK1, {"lat"})>>],
      [readable |-> TRUE,  json |-> TRUE,
       value |-> <<[TelemK3 EXCEPT !.text = @ \cup {"alt"}]>>],
      [readable |-> TRUE,  json |-> TRUE,
       value |-> <<TelemK2, [TelemK1 EXCEPT !.text = {"datetime"}]>>] }

\* all sequences over S of length at most n
RECURSIVE SeqsUpTo(_, _)
SeqsUpTo(S, n) ==
    IF n = 0 THEN {<<>>}
    ELSE LET shorter == SeqsUpTo(S, n - 1)
         IN  shorter \cup {Append(q, x) : q \in shorter, x \in S}

\* for _entry in data: _telem[_entry['datetime']] = _entry
RECURSIVE TelemDict(_, _)
TelemDict(entries, n) ==
    IF n = 0 THEN EmptyDict
    ELSE DictSet(TelemDict(entries, n - 1), entries[n].datetime, entries[n])

\* read_json_file(filename): the output dict, or the exception raised
read_json_file(f) ==
    IF ~f.readable THEN [raised |-> "OSError"]
    ELSE IF ~f.json THEN [raised |-> "JSONDecodeError"]
    ELSE IF \E i \in 1..Len(f.value) : "datetime" \notin f.value[i].keys
         THEN [raised |-> "KeyError"]
    ELSE LET _telem       == TelemDict(f.value, Len(f.value))
             _telem_dates == Sorted(DictKeys(_telem))
         IN  IF Len(_telem_dates) = 0 THEN [raised |-> "IndexError"]
             ELSE LET _first == DictGet(_telem, _telem_dates[1])
                      _last  == DictGet(_telem, _telem_dates[Len(_telem_dates)])
                  IN  IF "serial" \notin _first.keys THEN [raised |-> "KeyError"]
                      ELSE IF \E i \in 1..Len(_telem_dates) :
                                 ~({"lat", "lon", "alt"}
                                   \subseteq DictGet(_telem, _telem_dates[i]).keys)
                           THEN [raised |-> "KeyError"]
                      ELSE [raised    |-> None,
                            serial    |-> _first.serial,
                            last_time |-> _last.datetime,
                            \* whether serial and last_time are str objects
                            is_text   |-> "serial" \in _first.text
                                          /\ "datetime" \in _last.text,
                            path |-> [i \in 1..Len(_telem_dates) |->
                                        LET _a == DictGet(_telem, _telem_dates[i])
                                        IN  [lat |-> _a.lat, lon |-> _a.lon, alt |-> _a.alt,
                                             \* whether lat, lon, alt are numbers
                                             numeric |-> {"lat", "lon", "alt"} \cap _a.text = {}]]]

\* _log_file_to_kml_folder(filename): the Folder element, or the exception
\* (f"{lon:.6f}" raises for a lat, lon or alt that is a string)
log_file_to_kml_folder(f) ==
    LET _flight_data == read_json_file(f)
    IN  IF _flight_data.raised # None THEN _flight_data
        ELSE IF \E i \in 1..Len(_flight_data.path) : ~_flight_data.path[i].numeric
             THEN [raised |-> "ValueError"]
        ELSE [raised      |-> None,
              name        |-> _flight_data.serial,
              description |-> _flight_data.last_time,
              point       |-> _flight_data.path[Len(_flight_data.path)],
              track       |-> _flight_data.path,
              is_text     |-> _flight_data.is_text]

InitKml ==
    /\ kmlFiles \in SeqsUpTo(KmlFileSet, MaxKmlFiles)
    /\ kmlIdx = 0
    /\ kmlDoc = <<>>
    /\ kmlPc = "loop"
    /\ kmlWritten = None
    /\ FilterIdle /\ AtmosIdle /\ GeoIdle /\ ReadIdle

\* for file in file_list: try: kml_doc.append(...) except Exception: log
ConvertFile ==
    /\ kmlPc = "loop"
    /\ kmlIdx < Len(kmlFiles)
    /\ LET folder == log_file_to_kml_folder(kmlFiles[kmlIdx + 1])
       IN  kmlDoc' = IF folder.raised = None THEN Append(kmlDoc, folder) ELSE kmlDoc
    /\ kmlIdx' = kmlIdx + 1
    /\ UNCHANGED <<kmlFiles, kmlPc, kmlWritten, filterVars, atmosVars, geoVars, readVars>>

\* tree.write(kml_file, ...): ElementTree raises TypeError("cannot serialize")
\* on the first text that is no str, leaving the file cut there
WriteKml ==
    /\ kmlPc = "loop"
    /\ kmlIdx = Len(kmlFiles)
    /\ IF \A i \in 1..Len(kmlDoc) : kmlDoc[i].is_text
       THEN /\ kmlWritten' = [complete |-> TRUE, folders |-> kmlDoc]
            /\ kmlPc' = "done"
       ELSE LET bad == CHOOSE i \in 1..Len(kmlDoc) :
                          ~kmlDoc[i].is_text /\ \A j \in 1..(i - 1) : kmlDoc[j].is_text
            IN  /\ kmlWritten' = [complete |-> FALSE, folders |-> SubSeq(kmlDoc, 1, bad - 1)]
                /\ kmlPc' = "crashed"
    /\ UNCHANGED <<kmlFiles, kmlIdx, kmlDoc, filterVars, atmosVars, geoVars, readVars>>

NextKml == ConvertFile \/ WriteKml
SpecKml == InitKml /\ [][NextKml]_vars

-----------------------------------------------------------------------------
(* read_json_file applied to one exported file.                            *)

MaxEntries == 3    \* length of the JSON list of the file

\* datetime strings: "10" < "105" < "9" as strings, not as numbers
Datetimes == {<<1, 0>>, <<1, 0, 5>>, <<9>>}

\* The entries of the list: each datetime reported twice, by different
\* serials at different places, and entries that lack a key.
ReadEntries ==
    {Telem(dt, "S1", <<37, -89, 1000>>) : dt \in Datetimes}
    \cup {Telem(dt, "S2", <<38, -88, 161>>) : dt \in Datetimes}
    \cup {Without(TelemK1, {"lat"}), Without(TelemK2, {"serial"}),
          Without(TelemK3, {"datetime"})}

InitRead ==
    /\ jsonFile \in {[readable |-> TRUE, json |-> TRUE, value |-> v] :
                        v \in SeqsUpTo(ReadEntries, MaxEntries)}
    /\ flightData = [op |-> None]
    /\ FilterIdle /\ AtmosIdle /\ GeoIdle /\ KmlIdle

CallReadJsonFile ==
    /\ flightData.op = None
    /\ flightData' = [op |-> "read_json_file", result |-> read_json_file(jsonFile)]
    /\ UNCHANGED <<jsonFile, filterVars, atmosVars, geoVars, kmlVars>>

NextRead == CallReadJsonFile
SpecRead == InitRead /\ [][NextRead]_vars

-----------------------------------------------------------------------------
(* Claims about getDensity and seaLevelDescentRate (under SpecDensity).    *)

DensityReturned == atmos.op = "getDensity"
RateReturned    == atmos.op = "seaLevelDescentRate"
TopBase         == altitudes[Len(altitudes)]

\* C4 (as stated): getDensity raises no error for an altitude above the top
\* band base (84852 m) or below 0: the scan ends in band 7 above the table
\* and in band 0 below it, and a density is returned.
C4_NoErrorOutsideTable ==
    (DensityReturned /\ (altitude > TopBase \/ altitude < 0)) =>
        /\ atmos.result.raised = None
        /\ atmos.result.i = (IF altitude < 0 THEN 0 ELSE 7)

\* C5 (as stated): seaLevelDescentRate(rate, 0) returns exactly rate for a
\* positive, zero or negative rate, and the sign of the rate is preserved.
C5_SignedIdentity ==
    (RateReturned /\ atmos.result.raised = None) =>
        /\ altitude = 0 => atmos.result.value = descent_rate
        /\ Sign(atmos.result.value) = Sign(descent_rate) \/ atmos.result.value = 0

\* C5 (amended): seaLevelDescentRate(rate, 0) returns |rate|, and wherever
\* getDensity returns a density the result is |rate| * sqrt(density / 1.225)
\* (rounded down to the centimetre per second): it is never negative and is
\* the rate itself only for rate >= 0.
C5_AbsoluteIdentity ==
    (RateReturned /\ getDensity(altitude).raised = None) =>
        LET v     == atmos.result.value
            ratio == getDensity(altitude).density \div densitySL
            exact == BigMul(ratio, descent_rate * descent_rate)
        IN  /\ atmos.result.raised = None
            /\ v >= 0
            /\ altitude = 0 => v = Abs(descent_rate)
            /\ BigLeq(BigMul(1000 * v, 1000 * v), exact)
            /\ ~BigLeq(BigMul(1000 * (v + 1), 1000 * (v + 1)), exact)

C5_Witness ==
    /\ RateReturned /\ altitude = 0 /\ descent_rate = -500
    /\ atmos.result.raised = None /\ atmos.result.value = 500

\* the last index (from 0) of altitudes whose base satisfies Below(base)
LastIndex(Below(_)) ==
    CHOOSE i \in 0..(Len(altitudes) - 1) :
        /\ Below(altitudes[i + 1])
        /\ \A j \in (i + 1)..(Len(altitudes) - 1) : ~Below(altitudes[j + 1])

\* C9 (as stated): for 0 <= altitude <= 84852 the band chosen is the last
\* index whose base altitude is <= altitude, also when the altitude equals a
\* band base, and 0 <= i <= 7.
C9_LastBaseAtOrBelow ==
    (DensityReturned /\ altitude >= 0 /\ altitude <= TopBase) =>
        /\ atmos.result.raised = None
        /\ atmos.result.i \in 0..7
        /\ LET AtOrBelow(b) == b <= altitude
           IN  atmos.result.i = LastIndex(AtOrBelow)

\* C9 (amended): for 0 < altitude <= 84852 the band chosen is the last index
\* whose base altitude is strictly below the altitude, so an altitude equal
\* to the base of band k >= 1 is computed in band k - 1; altitude 0 gives
\* band 0; the scan ends with 0 <= i <= 6.
C9_LastBaseStrictlyBelow ==
    (DensityReturned /\ altitude >= 0 /\ altitude <= TopBase) =>
        /\ atmos.result.raised = None
        /\ atmos.result.i \in 0..6
        /\ LET StrictlyBelow(b) == b < altitude
           IN  atmos.result.i = (IF altitude = 0 THEN 0 ELSE LastIndex(StrictlyBelow))

C9_Witness ==
    /\ DensityReturned /\ altitude = 11000
    /\ atmos.result.raised = None /\ atmos.result.i = 0

-----------------------------------------------------------------------------
(* Claims about position_info (under SpecGeo).                             *)

InfoReturned == posInfo.op = "position_info"
Coincident ==
    /\ listener[1] = balloon[1] /\ listener[2] = balloon[2]
    /\ listener[3] # balloon[3]

\* C6 (as stated): with identical latitude and longitude and different
\* altitudes, bearing is 0, elevation is exactly +90 degrees, the great
\* circle distance is 0 and the straight distance is |alt2 - alt1|; the
\* elevation always lies in (-90, 90].
C6_AlwaysZenith ==
    InfoReturned =>
        /\ posInfo.result.elevation > -90 * DegScale
        /\ posInfo.result.elevation <= 90 * DegScale
        /\ Coincident =>
            /\ posInfo.result.bearing = 0
            /\ posInfo.result.elevation = 90 * DegScale
            /\ posInfo.result.great_circle_distance = 0
            /\ posInfo.result.straight_distance = Abs(balloon[3] - listener[3])

\* C6 (amended): with identical latitude and longitude and different
\* altitudes (whole metres), bearing is 0, the great circle distance is 0,
\* the straight distance is |alt2 - alt1|, and the elevation is exactly +90
\* degrees when the target is above the observer and exactly -90 degrees
\* when it is below; the elevation always lies in [-90, 90].
C6_ZenithOrNadir ==
    InfoReturned =>
        /\ posInfo.result.elevation >= -90 * DegScale
        /\ posInfo.result.elevation <= 90 * DegScale
        /\ Coincident =>
            /\ posInfo.result.bearing = 0
            /\ posInfo.result.elevation =
                   (IF balloon[3] > listener[3] THEN 90 * DegScale ELSE -90 * DegScale)
            /\ posInfo.result.great_circle_distance = 0
            /\ posInfo.result.straight_distance = Abs(balloon[3] - listener[3])

C6_Witness ==
    /\ InfoReturned /\ Coincident
    /\ listener[3] = 1000 /\ balloon[3] = 161
    /\ posInfo.result.elevation = -90 * DegScale
    /\ posInfo.result.straight_distance = 839

\* C7 (as stated): for all inputs 0 <= bearing < 360 degrees
\* (0 <= bearing_radians < 2*pi).
C7_BearingRange ==
    InfoReturned =>
        /\ 0 <= posInfo.result.bearing /\ posInfo.result.bearing < 360 * DegScale
        /\ 0 <= posInfo.result.bearing_radians /\ posInfo.result.bearing_radians < TwoPi

-----------------------------------------------------------------------------
(* Claims about the filter loop of step2.py (under Spec).                  *)

\* the data of the first n files that load_summary_file returned, in order
RECURSIVE Loaded(_)
Loaded(n) == IF n <= 0 THEN <<>> ELSE Loaded(n - 1) \o load_summary_file(files[n]).data

\* the records the loop has gone through so far, in input order
Input == Loaded(fileIdx - 1) \o SubSeq(data, 1, entryIdx)

\* the two predicates of the visibility filter, stated on a record
ElevationOf(e) == PosInfo[<<e.lat, e.lon, e.alt>>].elevation
TimeDiffOf(e)  == Abs(Parse(observer_datetime) - Parse(e.datetime))
SatisfiesBoth(e) ==
    /\ {"lat", "lon", "alt", "datetime"} \subseteq e.keys
    /\ ElevationOf(e) > cfg.min_el
    /\ TimeDiffOf(e) < cfg.window
DictValues(d) == {d[i][2] : i \in 1..Len(d)}
Greatest(S) == CHOOSE i \in S : \A j \in S : j <= i

\* C1: for every serial in the result mapping, the stored record is the one
\* at the greatest input position among the records with that serial that
\* satisfy both predicates (last match wins).
C1_LastMatchWins ==
    \A k \in DictKeys(serials) :
        LET hits == {i \in 1..Len(Input) : Input[i].serial = k /\ SatisfiesBoth(Input[i])}
        IN  hits # {} /\ DictGet(serials, k) = Input[Greatest(hits)]

C1_Witness ==
    /\ pc = "done"
    /\ \E i, j \in 1..Len(Input) :
        /\ i < j
        /\ Input[i].serial = Input[j].serial /\ Input[i] # Input[j]
        /\ SatisfiesBoth(Input[i]) /\ SatisfiesBoth(Input[j])
        /\ \A m \in (j + 1)..Len(Input) : Input[m].serial # Input[j].serial
        /\ Input[j].serial \in DictKeys(serials)
        /\ DictGet(serials, Input[j].serial) = Input[j]

\* C2 (as stated): every record that satisfies both predicates is in the
\* returned mapping under its serial, and no record that fails one is.
C2_EveryPassingRecordStored ==
    pc = "done" =>
        \A i \in 1..Len(Input) :
            IF SatisfiesBoth(Input[i])
            THEN /\ Input[i].serial \in DictKeys(serials)
                 /\ DictGet(serials, Input[i].serial) = Input[i]
            ELSE Input[i] \notin DictValues(serials)

\* C2 (amended): for every record that satisfies both predicates its serial
\* is a key of the returned mapping, and the record itself is the value
\* unless a later record with the same serial satisfies both predicates;
\* a record that fails either predicate is not in the returned mapping.
C2_PassingSerialStored ==
    pc = "done" =>
        \A i \in 1..Len(Input) :
            IF SatisfiesBoth(Input[i])
            THEN /\ Input[i].serial \in DictKeys(serials)
                 /\ \/ DictGet(serials, Input[i].serial) = Input[i]
                    \/ \E j \in (i + 1)..Len(Input) :
                          Input[j].serial = Input[i].serial /\ SatisfiesBoth(Input[j])
            ELSE Input[i] \notin DictValues(serials)

C2_Witness ==
    /\ pc = "done"
    /\ \E i, j \in 1..Len(Input) :
        /\ SatisfiesBoth(Input[i])
        /\ Input[i].serial \in DictKeys(serials)
        /\ DictGet(serials, Input[i].serial) # Input[i]
        /\ ~SatisfiesBoth(Input[j])
        /\ Input[j].serial \notin DictKeys(serials)

\* C3: at every point of the loop every stored record is stored under its
\* own serial and satisfied both predicates strictly (elevation > min_el,
\* time difference < window), and a key once inserted is never removed.
C3_Stored ==
    \A i \in 1..Len(serials) :
        /\ serials[i][1] = serials[i][2].serial
        /\ ElevationOf(serials[i][2]) > cfg.min_el
        /\ ElevationOf(serials[i][2]) # cfg.min_el
        /\ TimeDiffOf(serials[i][2]) < cfg.window
        /\ TimeDiffOf(serials[i][2]) # cfg.window
C3_StoredStrictlyAndKept ==
    /\ []C3_Stored
    /\ [][DictKeys(serials) \subseteq DictKeys(serials')]_vars

C3_Witness ==
    /\ serials # EmptyDict
    /\ \E i \in 1..Len(Input) :
        /\ {"lat", "lon", "alt", "datetime"} \subseteq Input[i].keys
        /\ ElevationOf(Input[i]) = cfg.min_el
        /\ Input[i] \notin DictValues(serials)

\* C8 (as stated): every entry of the data load_summary_file returns has
\* lat, lon, alt, datetime and serial, so the loop never fails on a record.
C8_LoopNeverFails ==
    /\ pc = "entries" => \A i \in 1..Len(data) : data[i].keys = AllKeys
    /\ pc # "crashed"

-----------------------------------------------------------------------------
(* Claims about log_files_to_kml (under SpecKml).                          *)

\* the Folders of the first n files whose conversion raised nothing
RECURSIVE Converted(_)
Converted(n) ==
    IF n = 0 THEN <<>>
    ELSE LET folder == log_file_to_kml_folder(kmlFiles[n])
         IN  IF folder.raised = None THEN Append(Converted(n - 1), folder)
             ELSE Converted(n - 1)

\* C10 (as stated): whatever the file list, a failing file does not stop
\* the loop and the KML file is written, its Document holding exactly one
\* Folder per file that converted, in file_list order, also when all fail.
C10_FailureIsolated ==
    /\ kmlPc # "crashed"
    /\ kmlPc = "done" =>
        /\ kmlIdx = Len(kmlFiles)
        /\ kmlWritten = [complete |-> TRUE, folders |-> Converted(Len(kmlFiles))]

-----------------------------------------------------------------------------
(* Claims about read_json_file (under SpecRead).                           *)

\* read_json_file has returned its output dict
TrackReturned == flightData.op = "read_json_file" /\ flightData.result.raised = None
\* the datetime strings of the list
DatesOf(entries) == {entries[i].datetime : i \in 1..Len(entries)}
\* the entry with datetime d that comes latest in the list
LatestWith(entries, d) ==
    entries[CHOOSE i \in 1..Len(entries) :
                /\ entries[i].datetime = d
                /\ \A j \in (i + 1)..Len(entries) : entries[j].datetime # d]
\* the place of d among the distinct datetime strings in ascending order
RankOf(entries, d) == Cardinality({e \in DatesOf(entries) : StrLess(e, d)}) + 1
SamePlace(point, entry) ==
    point.lat = entry.lat /\ point.lon = entry.lon /\ point.alt = entry.alt

\* C11: for a non-empty list whose entries all have datetime, serial, lat,
\* lon and alt, read_json_file returns, and whenever it returns for a
\* non-empty list: the path has one point per distinct datetime string, the
\* point of a datetime stands at that datetime's rank in ascending string
\* order and is the position of the latest entry in the list with that
\* datetime; serial is that of the entry supplying the least datetime,
\* last_time is the greatest datetime, whose entry supplies the last point.
C11_TimeOrderedDeduplicated ==
    LET entries == jsonFile.value
        out     == flightData.result
    IN  /\ (/\ flightData.op = "read_json_file"
            /\ Len(entries) > 0
            /\ \A i \in 1..Len(entries) : entries[i].keys = AllKeys)
           => out.raised = None
        /\ TrackReturned =>
             LET dates    == DatesOf(entries)
                 least    == CHOOSE d \in dates : \A e \in dates \ {d} : StrLess(d, e)
                 greatest == CHOOSE d \in dates : \A e \in dates \ {d} : StrLess(e, d)
             IN  /\ Len(out.path) = Cardinality(dates)
                 /\ \A d \in dates :
                        SamePlace(out.path[RankOf(entries, d)], LatestWith(entries, d))
                 /\ out.serial = LatestWith(entries, least).serial
                 /\ out.last_time = greatest
                 /\ SamePlace(out.path[Len(out.path)], LatestWith(entries, greatest))

\* a list out of time order that repeats its least datetime with another
\* serial and position has been read
C11_Witness ==
    /\ TrackReturned
    /\ Len(flightData.result.path) = 2
    /\ \E i, j, k \in 1..Len(jsonFile.value) :
        /\ i < j /\ j < k
        /\ StrLess(jsonFile.value[j].datetime, jsonFile.value[i].datetime)
        /\ jsonFile.value[k].datetime = jsonFile.value[j].datetime
        /\ jsonFile.value[k].serial # jsonFile.value[j].serial
        /\ ~SamePlace(jsonFile.value[k], jsonFile.value[j])

====
